---- MODULE Spec2Model ----
(***************************************************************************)
(* A model of the 2048 board engine of src/2048/Twenty.py: the play grid,  *)
(* the list of Block objects, spawn_block and the four sweeps of move.     *)
(* Rows and columns are numbered 0..3 as in the source; playGrid[r][c] is  *)
(* grid[r][c].  A Block object is a record whose id stands for the         *)
(* object's identity.                                                      *)
(***************************************************************************)
EXTENDS Integers, Sequences, FiniteSets, TLC

VARIABLES grid, blocks, nextId, pressed, nmoves, last

vars == <<grid, blocks, nextId, pressed, nmoves, last>>

\* ------------------------------------------------------------- bounds

\* The number of move calls explored from a freshly constructed game.
MaxMoves == 2

\* Cell values of the input lines of SpecLine are 0 and 2^1 .. 2^MaxExp.
MaxExp == 3

\* ---------------------------------------------------------- constants

\* The side of the board: range(4) throughout Twenty.py.
N == 4

SPAWNABLE == {2, 4}

Idx == 0 .. (N - 1)

Cells == Idx \X Idx

Directions == {"up", "down", "left", "right"}

\* A direction argument outside the four named ones.
OtherDirection == "other"

EmptyGrid == [r \in Idx |-> [c \in Idx |-> 0]]

\* ------------------------------------------------------------ helpers

RECURSIVE Pow2(_)
Pow2(k) == IF k = 0 THEN 1 ELSE 2 * Pow2(k - 1)

RemoveAt(s, i) == [k \in 1 .. (Len(s) - 1) |-> IF k < i THEN s[k] ELSE s[k + 1]]

\* ---------------------------------------------------------- the blocks

\* Block.__init__
Block(id, row, col, value) == [id |-> id, row |-> row, col |-> col, val |-> value]

\* A move that leaves the block's row and col as they were.
BlockMoveStays(b, newrow, newcol) == b

\* A move that takes the new row for the col and the new col for the row.
BlockMoveSwapped(b, newrow, newcol) == [b EXCEPT !.row = newcol, !.col = newrow]

\* Block.move
BlockMove(b, newrow, newcol) == [b EXCEPT !.row = newrow, !.col = newcol]

\* A double that adds 2 instead of doubling.
BlockDoubleAddsTwo(b) == [b EXCEPT !.val = @ + 2]

\* A double that leaves the val as it was.
BlockDoubleKeeps(b) == b

\* Block.double
BlockDouble(b) == [b EXCEPT !.val = @ * 2]

\* Twenty.getBlock: the index of the first block at (row, col), 0 when the
\* loop ends without one (the ValueError).
RECURSIVE getBlockFrom(_, _, _, _)
getBlockFrom(bs, row, col, i) ==
  IF i > Len(bs)
  THEN 0
  ELSE IF row = bs[i].row /\ col = bs[i].col
       THEN i
       ELSE getBlockFrom(bs, row, col, i + 1)

\* A getBlock that returns the first block of the list, wherever it is.
getBlockFirst(bs, row, col) == IF Len(bs) > 0 THEN 1 ELSE 0

getBlock(bs, row, col) == getBlockFrom(bs, row, col, 1)

\* A removeBlock that leaves the list as it is.
removeBlockKeeps(bs, i) == bs

\* A removeBlock that drops the first block of the list, whichever was asked.
removeBlockFirst(bs, i) == Tail(bs)

\* A removeBlock that puts the last block of the list in the place of the
\* removed one.
removeBlockSwaps(bs, i) == [k \in 1 .. (Len(bs) - 1) |-> IF k = i THEN bs[Len(bs)] ELSE bs[k]]

\* Twenty.removeBlock, for the block at index i of the list.
removeBlock(bs, i) == RemoveAt(bs, i)

\* ------------------------------------------------------------- spawn

\* The list acc of spawn_block: the empty cells.
EmptyCells(g) == {p \in Cells : g[p[1]][p[2]] = 0}

\* A spawn_block that picks among all sixteen cells, empty or not.
spawn_blockAnyCell(g, bs, nid) ==
  {[grid |-> [g EXCEPT ![p[1]][p[2]] = value],
    blocks |-> Append(bs, Block(nid, p[1], p[2], value)),
    nextId |-> nid + 1,
    err |-> "none"] : p \in Cells, value \in SPAWNABLE}

\* A spawn_block whose value is always 2.
spawn_blockOnlyTwo(g, bs, nid) ==
  IF EmptyCells(g) = {}
  THEN {[grid |-> g, blocks |-> bs, nextId |-> nid, err |-> "IndexError"]}
  ELSE {[grid |-> [g EXCEPT ![p[1]][p[2]] = 2],
         blocks |-> Append(bs, Block(nid, p[1], p[2], 2)),
         nextId |-> nid + 1,
         err |-> "none"] : p \in EmptyCells(g)}

\* Twenty.spawn_block: every outcome of the two random choices.  With no
\* empty cell random.choice raises IndexError before anything is written.
spawn_block(g, bs, nid) ==
  IF EmptyCells(g) = {}
  THEN {[grid |-> g, blocks |-> bs, nextId |-> nid, err |-> "IndexError"]}
  ELSE {[grid |-> [g EXCEPT ![p[1]][p[2]] = value],
         blocks |-> Append(bs, Block(nid, p[1], p[2], value)),
         nextId |-> nid + 1,
         err |-> "none"] : p \in EmptyCells(g), value \in SPAWNABLE}

\* ------------------------------------------------------------- sweeps

\* Guards whose left sweep stops one column short of the edge.
CanStepShortLeft(d, r, c) ==
  CASE d = "up" -> r > 0
    [] d = "down" -> r < 3
    [] d = "right" -> c < 3
    [] d = "left" -> c > 1

\* Guards that let every cell step, the cells of the target edge included.
CanStepAlways(d, r, c) == TRUE

\* The guard of the slide loop and of the merge test: r > 0, r < 3, c < 3, c > 0.
CanStep(d, r, c) ==
  CASE d = "up" -> r > 0
    [] d = "down" -> r < 3
    [] d = "right" -> c < 3
    [] d = "left" -> c > 0

\* The neighbouring cell toward the target edge.
NextRow(d, r) == CASE d = "up" -> r - 1 [] d = "down" -> r + 1 [] OTHER -> r

NextCol(d, c) == CASE d = "right" -> c + 1 [] d = "left" -> c - 1 [] OTHER -> c

\* The number of cells the two for loops of a direction visit: three rows
\* of four columns or four rows of three columns, none for another argument.
CellCount(d) == IF d \in Directions THEN (N - 1) * N ELSE 0

\* The row and the column of the k-th cell the two for loops visit:
\* range(1,4) x range(4), range(2,-1,-1) x range(4), range(4) x range(2,-1,-1)
\* and range(4) x range(1,4).
CellRow(d, k) ==
  CASE d = "up" -> 1 + ((k - 1) \div N)
    [] d = "down" -> (N - 2) - ((k - 1) \div N)
    [] d = "right" -> (k - 1) \div (N - 1)
    [] d = "left" -> (k - 1) \div (N - 1)

CellCol(d, k) ==
  CASE d = "up" -> (k - 1) % N
    [] d = "down" -> (k - 1) % N
    [] d = "right" -> (N - 2) - ((k - 1) % (N - 1))
    [] d = "left" -> 1 + ((k - 1) % (N - 1))

\* A slide test that never succeeds.
SlideTestNever(g, d, r, c) == FALSE

\* The test of the while loop: not at the edge, and the neighbour is empty.
\* The bound is tested first, as Python's and does.
SlideTest(g, d, r, c) == CanStep(d, r, c) /\ g[NextRow(d, r)][NextCol(d, c)] = 0

\* A merge test that takes any occupied neighbour, equal or not.
MergeTestAnyTile(g, d, r, c) == CanStep(d, r, c) /\ g[NextRow(d, r)][NextCol(d, c)] # 0

\* A merge test that never succeeds.
MergeTestNever(g, d, r, c) == FALSE

\* The test of the if after the loop: not at the edge, and the neighbour
\* holds the same value.
MergeTest(g, d, r, c) == CanStep(d, r, c) /\ g[NextRow(d, r)][NextCol(d, c)] = g[r][c]

\* The state a sweep works on: the grid and the list, the exception raised
\* so far, and counters of what the sweep did (slides, merges, the ids of
\* the blocks doubled, and whether a doubled block took part in a second
\* merge).
SweepStart(g, bs) ==
  [grid |-> g, blocks |-> bs, err |-> "none", slides |-> 0, merges |-> 0,
   doubled |-> {}, multi |-> FALSE]

\* The while loop: one step toward the edge while the neighbour is empty.
RECURSIVE Slide(_, _, _, _)
Slide(st, d, r, c) ==
  IF st.err = "none" /\ SlideTest(st.grid, d, r, c)
  THEN LET nr == NextRow(d, r)
           nc == NextCol(d, c)
           g1 == [st.grid EXCEPT ![nr][nc] = st.grid[r][c]]
           g2 == [g1 EXCEPT ![r][c] = 0]
           i == getBlock(st.blocks, r, c)
       IN  IF i = 0
           THEN [st |-> [st EXCEPT !.grid = g2, !.err = "ValueError"], r |-> r, c |-> c]
           ELSE Slide([st EXCEPT !.grid = g2,
                                 !.blocks[i] = BlockMove(@, nr, nc),
                                 !.slides = @ + 1], d, nr, nc)
  ELSE [st |-> st, r |-> r, c |-> c]

\* The if after the loop: merge into an equal neighbour toward the edge.
Merge(st, d, r, c) ==
  IF st.err = "none" /\ MergeTest(st.grid, d, r, c)
  THEN LET nr == NextRow(d, r)
           nc == NextCol(d, c)
           g1 == [st.grid EXCEPT ![nr][nc] = @ * 2]
           g2 == [g1 EXCEPT ![r][c] = 0]
           t == getBlock(st.blocks, nr, nc)
           bs1 == [st.blocks EXCEPT ![t] = BlockDouble(@)]
           s == getBlock(bs1, r, c)
       IN  IF t = 0
           THEN [st EXCEPT !.grid = g2, !.err = "ValueError"]
           ELSE IF s = 0
           THEN [st EXCEPT !.grid = g2, !.blocks = bs1, !.err = "ValueError"]
           ELSE [st EXCEPT !.grid = g2,
                           !.blocks = removeBlock(bs1, s),
                           !.merges = @ + 1,
                           !.doubled = @ \cup {bs1[t].id},
                           !.multi = @ \/ bs1[t].id \in st.doubled
                                       \/ bs1[s].id \in st.doubled]
  ELSE st

\* The body of the two for loops for one cell.
ProcessCell(st, d, row, col) ==
  IF st.err = "none" /\ st.grid[row][col] # 0
  THEN LET sl == Slide(st, d, row, col)
       IN  Merge(sl.st, d, sl.r, sl.c)
  ELSE st

RECURSIVE SweepFrom(_, _, _)
SweepFrom(st, d, k) ==
  IF k > CellCount(d)
  THEN st
  ELSE SweepFrom(ProcessCell(st, d, CellRow(d, k), CellCol(d, k)), d, k + 1)

\* The sweep of move(direction): everything before the comparison with old_grid.
Sweep(d, g, bs) == SweepFrom(SweepStart(g, bs), d, 1)

\* A comparison that never sees a change, and one that always sees one.
GridChangedNever(old, new) == FALSE

GridChangedAlways(old, new) == TRUE

\* old_grid != self.playGrid
GridChanged(old, new) == old # new

\* What the last call did.
Last(d, st, spawns, err) ==
  [dir |-> d, err |-> err, spawns |-> spawns, slides |-> st.slides,
   merges |-> st.merges, multi |-> st.multi]

\* Twenty.move: every outcome of the call.
move(d, g, bs, nid) ==
  LET st == Sweep(d, g, bs)
  IN  IF st.err # "none"
      THEN {[grid |-> st.grid, blocks |-> st.blocks, nextId |-> nid,
             last |-> Last(d, st, 0, st.err)]}
      ELSE IF GridChanged(g, st.grid)
      THEN {[grid |-> o.grid, blocks |-> o.blocks, nextId |-> o.nextId,
             last |-> Last(d, st, 1, o.err)] : o \in spawn_block(st.grid, st.blocks, nid)}
      ELSE {[grid |-> st.grid, blocks |-> st.blocks, nextId |-> nid,
             last |-> Last(d, st, 0, "none")]}

\* ------------------------------------------------------ specification

\* Twenty.__init__: an empty grid and two calls of spawn_block.
NewGame ==
  UNION {spawn_block(o.grid, o.blocks, o.nextId) : o \in spawn_block(EmptyGrid, <<>>, 1)}

InitLast ==
  [dir |-> "init", err |-> "none", spawns |-> 2, slides |-> 0, merges |-> 0,
   multi |-> FALSE]

Init ==
  \E o \in NewGame :
    /\ grid = o.grid
    /\ blocks = o.blocks
    /\ nextId = o.nextId
    /\ pressed = <<>>
    /\ nmoves = 0
    /\ last = InitLast

MoveCall(d) ==
  \E o \in move(d, grid, blocks, nextId) :
    /\ grid' = o.grid
    /\ blocks' = o.blocks
    /\ nextId' = o.nextId
    /\ nmoves' = nmoves + 1
    /\ last' = o.last
    /\ UNCHANGED pressed

Move == \E d \in Directions : nmoves < MaxMoves /\ MoveCall(d)

MoveOther == nmoves < MaxMoves /\ MoveCall(OtherDirection)

Next == Move \/ MoveOther

Spec == Init /\ [][Next]_vars

\* ------------------------------------------- boards given as the input

\* The blocks list of a board, one block per non-zero cell, the cells taken
\* in the order of the sequence cs; ids count from 1.
RECURSIVE BlocksOf(_, _, _)
BlocksOf(g, cs, nid) ==
  IF cs = <<>>
  THEN <<>>
  ELSE LET p == Head(cs)
       IN  IF g[p[1]][p[2]] = 0
           THEN BlocksOf(g, Tail(cs), nid)
           ELSE <<Block(nid, p[1], p[2], g[p[1]][p[2]])>> \o BlocksOf(g, Tail(cs), nid + 1)

RowMajor == [k \in 1 .. (N * N) |-> <<(k - 1) \div N, (k - 1) % N>>]

ReverseRowMajor == [k \in 1 .. (N * N) |-> RowMajor[N * N + 1 - k]]

InitBoard(g, cs) ==
  /\ grid = g
  /\ blocks = BlocksOf(g, cs, 1)
  /\ nextId = Len(BlocksOf(g, cs, 1)) + 1
  /\ pressed = <<>>
  /\ nmoves = 0
  /\ last = [InitLast EXCEPT !.dir = "given", !.spawns = 0]

\* One call of move on the given board.
MoveOnce == \E d \in Directions : nmoves < 1 /\ MoveCall(d)

MoveOtherOnce == nmoves < 1 /\ MoveCall(OtherDirection)

NextOnce == MoveOnce \/ MoveOtherOnce

\* SpecLine: one row or one column holds any content of zeros and powers of
\* two up to 2^MaxExp; a line with fewer than two tiles comes with one more
\* tile of value 2 in another line, as a board always holds two tiles.
LineValues == {0} \cup {Pow2(k) : k \in 1 .. MaxExp}

LineGrid(kind, i, content) ==
  [r \in Idx |-> [c \in Idx |->
     IF kind = "row" THEN (IF r = i THEN content[c] ELSE 0)
                     ELSE (IF c = i THEN content[r] ELSE 0)]]

TilesIn(g) == Cardinality(Cells \ EmptyCells(g))

LineGrids ==
  LET base == {LineGrid(kind, i, content) :
                 kind \in {"row", "col"}, i \in Idx, content \in [Idx -> LineValues]}
  IN  {g \in base : TilesIn(g) >= 2}
      \cup {[g EXCEPT ![p[1]][p[2]] = 2] :
               g \in {h \in base : TilesIn(h) < 2}, p \in Cells}

InitLine == \E g \in {h \in LineGrids : TilesIn(h) >= 2} : InitBoard(g, RowMajor)

SpecLine == InitLine /\ [][NextOnce]_vars

\* No two equal values side by side in a row or one above the other in a column.
NoEqualNeighbours(g) ==
  /\ \A r \in Idx : \A c \in 0 .. (N - 2) : g[r][c] # g[r][c + 1]
  /\ \A r \in 0 .. (N - 2) : \A c \in Idx : g[r][c] # g[r + 1][c]

\* SpecFull: every board of the values 2, 4 and 8 with no empty cell and no
\* two equal neighbours, built row by row.
FullValues == {2, 4, 8}

FullRows == {row \in [Idx -> FullValues] : \A c \in 0 .. (N - 2) : row[c] # row[c + 1]}

RECURSIVE FullStacks(_)
FullStacks(n) ==
  IF n = 1
  THEN {<<row>> : row \in FullRows}
  ELSE UNION {{Append(s, row) : row \in {x \in FullRows : \A c \in Idx : x[c] # s[n - 1][c]}} :
                s \in FullStacks(n - 1)}

FullGrids == {[r \in Idx |-> s[r + 1]] : s \in FullStacks(N)}

InitFull == \E g \in FullGrids : \E cs \in {RowMajor, ReverseRowMajor} : InitBoard(g, cs)

SpecFull == InitFull /\ [][NextOnce]_vars

\* SpecDense: the two boards of alternating 2 and 4 with at most MaxEdits
\* cells set to another value (0, 2, 4 or 8): full boards with and without
\* a move left, and boards with a few empty cells.
MaxEdits == 2

Checker(k) == [r \in Idx |-> [c \in Idx |-> IF (r + c + k) % 2 = 0 THEN 2 ELSE 4]]

DenseValues == {0, 2, 4, 8}

RECURSIVE Edited(_, _)
Edited(G, n) ==
  IF n = 0
  THEN G
  ELSE LET E == Edited(G, n - 1)
       IN  E \cup {[g EXCEPT ![p[1]][p[2]] = v] : g \in E, p \in Cells, v \in DenseValues}

DenseGrids == Edited({Checker(0), Checker(1)}, MaxEdits)

InitDense == \E g \in DenseGrids : InitBoard(g, RowMajor)

SpecDense == InitDense /\ [][NextOnce]_vars

\* SpecCalls: one direct call of spawn_block or of getBlock, on a new game
\* or on a full board of SpecFull.
SpawnCall ==
  /\ nmoves < 1
  /\ \E o \in spawn_block(grid, blocks, nextId) :
       /\ grid' = o.grid
       /\ blocks' = o.blocks
       /\ nextId' = o.nextId
       /\ nmoves' = nmoves + 1
       /\ last' = [InitLast EXCEPT !.dir = "spawn_block", !.err = o.err, !.spawns = 1]
       /\ UNCHANGED pressed

\* The arguments of a getBlock call: the indices of the board and one on each side.
ArgRange == -1 .. N

\* A call getBlock(row, col): last holds the arguments, the block returned
\* (none when the call raised) and the exception.
GetBlockCall ==
  /\ nmoves < 1
  /\ \E row \in ArgRange : \E col \in ArgRange :
       LET i == getBlock(blocks, row, col)
       IN  /\ UNCHANGED <<grid, blocks, nextId, pressed>>
           /\ nmoves' = nmoves + 1
           /\ last' = [dir |-> "getBlock",
                       err |-> IF i = 0 THEN "ValueError" ELSE "none",
                       args |-> <<row, col>>,
                       ret |-> IF i = 0 THEN <<>> ELSE <<blocks[i]>>]

NextCalls == SpawnCall \/ GetBlockCall

InitCalls == Init \/ \E g \in FullGrids : InitBoard(g, RowMajor)

SpecCalls == InitCalls /\ [][NextCalls]_vars

\* SpecOrder: one row or one column holds any content of zeros and powers
\* of two up to 2^OrderMaxExp, and the blocks list holds the board's blocks
\* in any order.
OrderMaxExp == 2

OrderValues == {0} \cup {Pow2(k) : k \in 1 .. OrderMaxExp}

OrderGrids ==
  {LineGrid(kind, i, content) :
     kind \in {"row", "col"}, i \in Idx, content \in [Idx -> OrderValues]}

\* The orders of a list of n blocks.
Orders(n) == {f \in [1 .. n -> 1 .. n] : \A j \in 1 .. n : \E k \in 1 .. n : f[k] = j}

InitOrder ==
  \E g \in OrderGrids : \E f \in Orders(TilesIn(g)) :
    /\ grid = g
    /\ blocks = [k \in 1 .. TilesIn(g) |-> BlocksOf(g, RowMajor, 1)[f[k]]]
    /\ nextId = TilesIn(g) + 1
    /\ pressed = <<>>
    /\ nmoves = 0
    /\ last = [InitLast EXCEPT !.dir = "given", !.spawns = 0]

SpecOrder == InitOrder /\ [][NextOnce]_vars

\* ------------------------------------------------------ update frames

\* The four directions in the opposite order.
MovesReversed == <<"right", "left", "down", "up">>

\* The tuple moves of check_for_moves.
Moves == <<"up", "down", "left", "right">>

\* direction in self.pressed
InPressed(ps, d) == \E k \in 1 .. Len(ps) : ps[k] = d

\* self.pressed.remove(direction)
RemovePressed(ps, d) ==
  LET k == CHOOSE j \in 1 .. Len(ps) : ps[j] = d /\ \A m \in 1 .. (j - 1) : ps[m] # d
  IN  RemoveAt(ps, k)

\* A loop body that calls move and never records the direction as pressed.
CheckDirectionForgets(o, d, keys) ==
  IF o.err # "none"
  THEN {o}
  ELSE IF d \in keys
  THEN {[grid |-> m.grid, blocks |-> m.blocks, nextId |-> m.nextId,
         pressed |-> o.pressed, moved |-> Append(o.moved, d), err |-> m.last.err] :
           m \in move(d, o.grid, o.blocks, o.nextId)}
  ELSE {o}

\* The body of the for loop of check_for_moves for one direction, keys being
\* the directions for which theInput.is_key_down is true in this frame.  An
\* exception of move ends the frame before the append.
CheckDirection(o, d, keys) ==
  IF o.err # "none"
  THEN {o}
  ELSE IF d \in keys /\ ~InPressed(o.pressed, d)
  THEN {[grid |-> m.grid, blocks |-> m.blocks, nextId |-> m.nextId,
         pressed |-> IF m.last.err = "none" THEN Append(o.pressed, d) ELSE o.pressed,
         moved |-> Append(o.moved, d), err |-> m.last.err] :
           m \in move(d, o.grid, o.blocks, o.nextId)}
  ELSE IF d \notin keys /\ InPressed(o.pressed, d)
  THEN {[o EXCEPT !.pressed = RemovePressed(@, d)]}
  ELSE {o}

\* The for loop from the k-th direction on.
RECURSIVE CheckFrom(_, _, _)
CheckFrom(os, k, keys) ==
  IF k > Len(Moves)
  THEN os
  ELSE CheckFrom(UNION {CheckDirection(o, Moves[k], keys) : o \in os}, k + 1, keys)

\* Twenty.check_for_moves: every outcome of the call; moved lists the
\* directions move was called with.
check_for_moves(keys, g, bs, nid, ps) ==
  CheckFrom({[grid |-> g, blocks |-> bs, nextId |-> nid, pressed |-> ps,
              moved |-> <<>>, err |-> "none"]}, 1, keys)

\* The number of update frames explored.
MaxFrames == 3

\* The number of direction keys held down at once.
MaxKeys == 2

KeySets == {keys \in SUBSET Directions : Cardinality(keys) <= MaxKeys}

\* Twenty.update: one frame in which the keys of the set keys are down.
UpdateCall(keys) ==
  \E o \in check_for_moves(keys, grid, blocks, nextId, pressed) :
    /\ grid' = o.grid
    /\ blocks' = o.blocks
    /\ nextId' = o.nextId
    /\ pressed' = o.pressed
    /\ nmoves' = nmoves + 1
    /\ last' = [dir |-> "update", err |-> o.err, keys |-> keys, moved |-> o.moved]

\* A frame with up to MaxKeys direction keys down.
Update == nmoves < MaxFrames /\ \E keys \in KeySets : UpdateCall(keys)

\* SpecInput: update frames on the board of alternating 2 and 4, which no
\* move changes, and on that board with the corner cell empty, a 4 (equal to
\* its neighbours) or an 8.
InputGrids == {[Checker(0) EXCEPT ![0][0] = v] : v \in DenseValues}

InitInput == \E g \in InputGrids : InitBoard(g, RowMajor)

SpecInput == InitInput /\ [][Update]_vars

\* SpecKeys: MaxCalls update frames on the same boards, with any set of the
\* four direction keys down in a frame.
MaxCalls == 2

UpdateAnyKeys == nmoves < MaxCalls /\ \E keys \in SUBSET Directions : UpdateCall(keys)

SpecKeys == InitInput /\ [][UpdateAnyKeys]_vars

\* ------------------------------------------------- reading the states

\* A step of a specification is one call of move.
MoveStep == nmoves' = nmoves + 1

\* The last call ended with a block spawned: that block is the last of the list.
Spawned == last.dir # "init" /\ last.spawns = 1 /\ last.err = "none"

SpawnedBlock == blocks[Len(blocks)]

\* The grid and the list as the sweep of the last call left them, before the spawn.
SweptGrid ==
  IF Spawned THEN [grid EXCEPT ![SpawnedBlock.row][SpawnedBlock.col] = 0] ELSE grid

SweptBlocks == IF Spawned THEN SubSeq(blocks, 1, Len(blocks) - 1) ELSE blocks

\* The sum of the four cells of a row and of the four rows of the grid.
RowSum(row) == row[0] + row[1] + row[2] + row[3]

GridSum(g) == RowSum(g[0]) + RowSum(g[1]) + RowSum(g[2]) + RowSum(g[3])

RECURSIVE BlockSumFrom(_, _)
BlockSumFrom(bs, k) == IF k > Len(bs) THEN 0 ELSE bs[k].val + BlockSumFrom(bs, k + 1)

BlockSum(bs) == BlockSumFrom(bs, 1)

\* No tile of the grid has an empty cell next to it on the side of the
\* target edge of direction d.
Compact(g, d) ==
  \A r \in Idx : \A c \in Idx :
    (g[r][c] # 0 /\ CanStep(d, r, c)) => g[NextRow(d, r)][NextCol(d, c)] # 0

BlocksAt(bs, r, c) == {i \in 1 .. Len(bs) : bs[i].row = r /\ bs[i].col = c}

\* ------------------------------------------------------------- claims

\* C1: in every state reachable from Twenty() by move calls, the grid and
\* the blocks list are consistent: every non-zero cell has exactly one block
\* at its coordinate, with the cell's value, and every block sits on a
\* non-zero cell of the board.
C1_GridBlocksConsistent ==
  /\ \A r \in Idx : \A c \in Idx :
        grid[r][c] # 0 =>
          /\ Cardinality(BlocksAt(blocks, r, c)) = 1
          /\ \A i \in BlocksAt(blocks, r, c) : blocks[i].val = grid[r][c]
  /\ \A i \in 1 .. Len(blocks) :
        /\ blocks[i].row \in Idx
        /\ blocks[i].col \in Idx
        /\ grid[blocks[i].row][blocks[i].col] # 0
  /\ \A i \in 1 .. Len(blocks) : \A j \in 1 .. Len(blocks) :
        (i # j) => <<blocks[i].row, blocks[i].col>> # <<blocks[j].row, blocks[j].col>>

\* A second move that slid and merged blocks and then spawned one.
C1_Witness ==
  nmoves = 2 /\ last.slides >= 1 /\ last.merges >= 1 /\ last.spawns = 1

\* C2: within one move call no block is doubled more than once, and no block
\* doubled earlier in the sweep takes part in another merge.
C2_SingleMergePerBlock == last.dir \in Directions => ~last.multi

\* The classic reduction of a line read from the target edge: drop the
\* zeros, merge each adjacent equal pair once, pad with zeros.
RECURSIVE MergePairs(_)
MergePairs(s) ==
  IF Len(s) < 2
  THEN s
  ELSE IF s[1] = s[2]
       THEN <<2 * s[1]>> \o MergePairs(SubSeq(s, 3, Len(s)))
       ELSE <<s[1]>> \o MergePairs(Tail(s))

NonZero(x) == x # 0

ClassicLine(line) ==
  LET m == MergePairs(SelectSeq(line, NonZero))
  IN  [k \in 1 .. N |-> IF k <= Len(m) THEN m[k] ELSE 0]

\* Line i of a grid for direction d, read from the target edge.
LineOf(g, d, i) ==
  [k \in 1 .. N |->
     CASE d = "left" -> g[i][k - 1]
       [] d = "right" -> g[i][N - k]
       [] d = "up" -> g[k - 1][i]
       [] d = "down" -> g[N - k][i]]

\* C3: for every direction and every line, the line the sweep produces is
\* the classic 2048 reduction of the line before the move.
C3_ClassicReduction ==
  [][(MoveStep /\ last'.dir \in Directions) =>
       \A i \in Idx : LineOf(SweptGrid', last'.dir, i) = ClassicLine(LineOf(grid, last'.dir, i))]_vars

\* C4: a move calls spawn_block once when the swept grid differs from the
\* grid before the call and not at all when they are equal, and the spawn
\* comes after the finished sweep: the spawned block is the newest of the
\* list, and without it every line is packed against the target edge and
\* the blocks are those of the grid.
C4_SpawnIffChanged ==
  [][MoveStep =>
       LET sg == SweptGrid'
           sb == SweptBlocks'
       IN  /\ last'.spawns \in {0, 1}
           /\ (last'.spawns = 1) <=> (sg # grid)
           /\ Len(blocks') = Len(blocks) - last'.merges + last'.spawns
           /\ nextId' = nextId + last'.spawns
           /\ (last'.dir \in Directions) => Compact(sg, last'.dir)
           /\ \A i \in 1 .. Len(sb) : sb[i].id < nextId /\ sg[sb[i].row][sb[i].col] = sb[i].val
           /\ (last'.spawns = 1) =>
                 /\ SpawnedBlock'.id = nextId
                 /\ SpawnedBlock'.val \in SPAWNABLE
                 /\ grid'[SpawnedBlock'.row][SpawnedBlock'.col] = SpawnedBlock'.val]_vars

\* A move that merged once and spawned.
C4_Witness == nmoves >= 1 /\ last.merges = 1 /\ last.spawns = 1 /\ last.slides = 0

\* C5: a move that leaves the grid as it was spawns nothing and leaves the
\* blocks list as it was: the same blocks in the same order with the same
\* row, col and val.
C5_NoOpMove ==
  [][(MoveStep /\ (SweptGrid' = grid \/ grid' = grid)) =>
       /\ last'.spawns = 0
       /\ grid' = grid
       /\ blocks' = blocks
       /\ nextId' = nextId]_vars

\* A move in one of the four directions that changed nothing.
C5_Witness ==
  /\ nmoves >= 1
  /\ last.dir \in Directions
  /\ last.spawns = 0
  /\ last.slides = 0
  /\ last.merges = 0

\* C6: the sweep keeps the sum of the grid and the sum of the blocks' values,
\* and a whole move adds the spawned value when the grid changed and nothing
\* when it did not.
C6_SumConserved ==
  [][MoveStep =>
       LET sg == SweptGrid'
           before == GridSum(grid)
           added == IF sg # grid THEN SpawnedBlock'.val ELSE 0
       IN  /\ GridSum(sg) = before
           /\ BlockSum(SweptBlocks') = BlockSum(blocks)
           /\ GridSum(grid') = before + added
           /\ BlockSum(blocks') = BlockSum(blocks) + added
           /\ (sg # grid) => (last'.spawns = 1 /\ added \in SPAWNABLE)
           /\ (sg = grid) => last'.spawns = 0]_vars

\* A move with two merges and a spawn.
C6_Witness == nmoves >= 1 /\ last.merges = 2 /\ last.spawns = 1

\* C7: right after construction there are two blocks at distinct cells with
\* values in SPAWNABLE, the grid holds them, and the other 14 cells are 0.
C7_NewGame ==
  nmoves = 0 =>
    /\ Len(blocks) = 2
    /\ <<blocks[1].row, blocks[1].col>> # <<blocks[2].row, blocks[2].col>>
    /\ \A i \in 1 .. 2 :
          /\ blocks[i].val \in SPAWNABLE
          /\ blocks[i].row \in Idx
          /\ blocks[i].col \in Idx
          /\ grid[blocks[i].row][blocks[i].col] = blocks[i].val
    /\ Cardinality(EmptyCells(grid)) = N * N - 2

\* A new game with a 4 and a 2 next to each other.
C7_Witness ==
  /\ nmoves = 0
  /\ last.dir = "init"
  /\ Len(blocks) = 2
  /\ grid[0][0] = 4
  /\ grid[0][1] = 2

\* C8: on a grid with no empty cell and no two equal neighbours, move in any
\* direction leaves the grid and every block as they were and spawns nothing.
C8_StuckBoardUnchanged ==
  [][(MoveStep /\ EmptyCells(grid) = {} /\ NoEqualNeighbours(grid)) =>
       /\ grid' = grid
       /\ blocks' = blocks
       /\ nextId' = nextId
       /\ last'.spawns = 0
       /\ last'.err = "none"]_vars

\* move('down') was called on the board of alternating 2 and 4.
C8_Witness == nmoves = 1 /\ last.dir = "down" /\ grid = Checker(0)

\* Whether move(d) would change the grid of this state.
ProbeChanges(d) == GridChanged(grid, Sweep(d, grid, blocks).grid)

\* C9: no direction changes the grid exactly when the grid has no empty cell
\* and no two equal neighbours; a state with an empty cell has a direction
\* that changes the grid.
C9_GameOverAgree ==
  /\ (\A d \in Directions : ~ProbeChanges(d))
        <=> (EmptyCells(grid) = {} /\ NoEqualNeighbours(grid))
  /\ (EmptyCells(grid) # {}) => \E d \in Directions : ProbeChanges(d)

\* A move filled the last empty cell and left a board with no move.
C9_Witness ==
  /\ nmoves = 1
  /\ last.spawns = 1
  /\ EmptyCells(grid) = {}
  /\ NoEqualNeighbours(grid)

\* C10: move with a direction outside the four named ones fails with an
\* InvalidDirection error.
C10_InvalidDirectionFails == (last.dir = OtherDirection) => (last.err = "InvalidDirection")

\* C11: spawn_block on a grid with no empty cell fails with an error and
\* leaves every cell and the blocks list as they were.
C11_SpawnOnFullGridFails ==
  [][(last'.dir = "spawn_block" /\ EmptyCells(grid) = {}) =>
       /\ last'.err # "none"
       /\ grid' = grid
       /\ blocks' = blocks
       /\ nextId' = nextId]_vars

\* spawn_block was called on a full board and raised.
C11_Witness ==
  last.dir = "spawn_block" /\ last.err = "IndexError" /\ EmptyCells(grid) = {}

\* C12: spawn_block on a grid with an empty cell appends one new block, at
\* a cell that was 0, with a value of SPAWNABLE, writes the value into that
\* cell and changes nothing else; the possible outcomes are exactly the
\* pairs of an empty cell and a spawnable value.
C12_SpawnAddsOneBlock ==
  [][(last'.dir = "spawn_block" /\ EmptyCells(grid) # {}) =>
       LET b == blocks'[Len(blocks')]
       IN  /\ last'.err = "none"
           /\ Len(blocks') = Len(blocks) + 1
           /\ SubSeq(blocks', 1, Len(blocks)) = blocks
           /\ <<b.row, b.col>> \in EmptyCells(grid)
           /\ b.val \in SPAWNABLE
           /\ \A i \in 1 .. Len(blocks) : blocks[i].id # b.id
           /\ grid' = [grid EXCEPT ![b.row][b.col] = b.val]
           /\ {<<o.blocks[Len(o.blocks)].row, o.blocks[Len(o.blocks)].col,
                  o.blocks[Len(o.blocks)].val>> : o \in spawn_block(grid, blocks, nextId)}
                = {<<p[1], p[2], v>> : p \in EmptyCells(grid), v \in SPAWNABLE}]_vars

\* spawn_block added a third block, a 4, to a new game.
C12_Witness ==
  /\ last.dir = "spawn_block"
  /\ last.err = "none"
  /\ Len(blocks) = 3
  /\ blocks[3].val = 4

\* A power of two that is at least 2.
RECURSIVE IsTileValue(_)
IsTileValue(v) == v = 2 \/ (v > 2 /\ v % 2 = 0 /\ IsTileValue(v \div 2))

\* C13: in every reachable state every cell is 0 or a power of two that is
\* at least 2, the grid is 4 by 4, and every block has row and col in 0..3
\* and a val that is a power of two at least 2.
C13_ValuesAndShape ==
  /\ DOMAIN grid = Idx
  /\ \A r \in Idx : DOMAIN grid[r] = Idx
  /\ \A r \in Idx : \A c \in Idx : grid[r][c] = 0 \/ IsTileValue(grid[r][c])
  /\ \A i \in 1 .. Len(blocks) :
        /\ blocks[i].row \in Idx
        /\ blocks[i].col \in Idx
        /\ IsTileValue(blocks[i].val)

\* A move merged two tiles of 4 into a tile of 8.
C13_Witness ==
  /\ nmoves >= 1
  /\ last.merges >= 1
  /\ \E i \in 1 .. Len(blocks) : blocks[i].val = 8 /\ grid[blocks[i].row][blocks[i].col] = 8

\* The block b lies in the target edge line of direction d.
AtEdge(d, b) == ~CanStep(d, b.row, b.col)

\* The line of the cell (r, c) for direction d, read from the target edge.
LineThrough(g, d, r, c) == LineOf(g, d, IF d \in {"up", "down"} THEN c ELSE r)

\* The nearest tile behind the edge cell of a line holds the edge cell's value.
EqualBehind(line) ==
  \E k \in 2 .. N : line[k] = line[1] /\ \A j \in 2 .. (k - 1) : line[j] = 0

\* C14: a block in the target edge line of the direction has the same row
\* and col after the sweep; when the nearest block behind it in its line
\* has another value, or there is none, its val is the same too.
C14_EdgeBlockStays ==
  [][(MoveStep /\ last'.dir \in Directions) =>
       LET sb == SweptBlocks'
           d == last'.dir
       IN  \A i \in 1 .. Len(blocks) :
             AtEdge(d, blocks[i]) =>
               \E j \in 1 .. Len(sb) :
                 /\ sb[j].id = blocks[i].id
                 /\ sb[j].row = blocks[i].row
                 /\ sb[j].col = blocks[i].col
                 /\ ~EqualBehind(LineThrough(grid, d, blocks[i].row, blocks[i].col))
                      => sb[j].val = blocks[i].val]_vars

\* move('left') on a row 2, 4, 4 or 2, 0, 4, 4: the 2 at the edge stayed
\* and the tiles behind it merged.
C14_Witness ==
  /\ nmoves = 1
  /\ last.dir = "left"
  /\ last.merges = 1
  /\ \E r \in Idx : grid[r][0] = 2 /\ grid[r][1] = 8 /\ getBlock(blocks, r, 0) = 1

\* The only tiles of the line are two tiles of the same value.
TwoEqualTiles(line) ==
  \E j \in 1 .. N : \E k \in (j + 1) .. N :
    /\ line[j] # 0
    /\ line[k] = line[j]
    /\ \A m \in (1 .. N) \ {j, k} : line[m] = 0

\* The value of the tiles of a line.
TileValue(line) == CHOOSE v \in {line[k] : k \in 1 .. N} : v # 0

\* The blocks of line i for direction d: of row i for left and right, of
\* column i for up and down.
BlocksInLine(bs, d, i) ==
  {j \in 1 .. Len(bs) : IF d \in {"up", "down"} THEN bs[j].col = i ELSE bs[j].row = i}

\* C15: a line whose only tiles are two tiles of the same value v, wherever
\* they are, is swept to 2v in the edge cell and 0 in the other three cells,
\* with exactly one block, of val 2v, left in the line before any spawn.
C15_TwoEqualTilesMerge ==
  [][(MoveStep /\ last'.dir \in Directions) =>
       LET sg == SweptGrid'
           sb == SweptBlocks'
           d == last'.dir
       IN  \A i \in Idx :
             TwoEqualTiles(LineOf(grid, d, i)) =>
               LET v == TileValue(LineOf(grid, d, i))
               IN  /\ LineOf(sg, d, i) = <<2 * v, 0, 0, 0>>
                   /\ Cardinality(BlocksInLine(sb, d, i)) = 1
                   /\ \A j \in BlocksInLine(sb, d, i) :
                        sb[j].val = 2 * v /\ ~CanStep(d, sb[j].row, sb[j].col)]_vars

\* move('right') merged the two tiles of 8 of a row into a 16 at column 3.
C15_Witness ==
  /\ nmoves = 1
  /\ last.dir = "right"
  /\ last.merges = 1
  /\ Len(blocks) = 2
  /\ \E r \in Idx : grid[r][3] = 16

\* The row, col and val of the blocks of a list.
Tiles(bs) == {<<bs[i].row, bs[i].col, bs[i].val>> : i \in 1 .. Len(bs)}

\* The sweep of each board of SpecOrder with its blocks listed in row-major
\* order, for each direction.
RefSweep == [g \in OrderGrids |-> [d \in Directions |-> Sweep(d, g, BlocksOf(g, RowMajor, 1))]]

\* C16: on every board whose grid and blocks list are consistent, whatever
\* the order of the list, the sweep of each direction ends without an
\* error, and its grid and its blocks' rows, cols and vals are those of the
\* sweep of the same grid with the blocks listed in row-major order.
C16_SweepDeterministic ==
  [][(MoveStep /\ last'.dir \in Directions) =>
       LET sb == SweptBlocks'
           ref == RefSweep[grid][last'.dir]
       IN  /\ last'.err = "none"
           /\ SweptGrid' = ref.grid
           /\ Len(sb) = Len(ref.blocks)
           /\ Tiles(sb) = Tiles(ref.blocks)
           /\ Cardinality(Tiles(sb)) = Len(sb)]_vars

\* A move slid and merged blocks of a list that was not in row-major order.
C16_Witness ==
  /\ nmoves = 1
  /\ last.dir \in Directions
  /\ last.slides >= 1
  /\ last.merges >= 1
  /\ Len(SweptBlocks) >= 2
  /\ SweptBlocks[1].id > SweptBlocks[2].id

\* C17: in a move started from a reachable state every getBlock call of the
\* sweep, those between the slide steps and the merge steps included, finds
\* a block: no move ends with the ValueError of getBlock.
C17_SweepFindsBlocks == (last.dir \in Directions) => (last.err # "ValueError")

\* A second move whose sweep slid blocks three cells or more and merged twice.
C17_Witness ==
  /\ nmoves = 2
  /\ last.dir \in Directions
  /\ last.slides >= 3
  /\ last.merges = 2
  /\ last.err = "none"

\* C18: getBlock(row, col) returns a block of the list whose row and col
\* are the arguments when there is one, raises when there is none, as for
\* every coordinate outside 0..3, and changes neither the grid nor the list.
C18_GetBlockContract ==
  [][(last'.dir = "getBlock") =>
       LET row == last'.args[1]
           col == last'.args[2]
       IN  /\ (BlocksAt(blocks, row, col) # {}) =>
                 /\ last'.err = "none"
                 /\ Len(last'.ret) = 1
                 /\ last'.ret[1].row = row
                 /\ last'.ret[1].col = col
                 /\ \E i \in BlocksAt(blocks, row, col) : blocks[i] = last'.ret[1]
           /\ (BlocksAt(blocks, row, col) = {}) =>
                 /\ last'.err = "ValueError"
                 /\ last'.ret = <<>>
           /\ (row \notin Idx \/ col \notin Idx) => last'.err = "ValueError"
           /\ grid' = grid
           /\ blocks' = blocks
           /\ nextId' = nextId]_vars

\* getBlock found the second block of the list of a new game.
C18_Witness ==
  /\ last.dir = "getBlock"
  /\ last.err = "none"
  /\ Len(blocks) = 2
  /\ last.ret = <<blocks[2]>>

\* The merge step at (r, c) of a sweep in state st: the block at the
\* neighbouring cell toward the edge keeps its id, row and col and doubles
\* its val, the block at (r, c) leaves the list, which keeps the others as
\* they were, and the cell (r, c) becomes 0.
MergeStepOk(st, d, r, c) ==
  LET nr == NextRow(d, r)
      nc == NextCol(d, c)
      t == getBlock(st.blocks, nr, nc)
      s == getBlock(st.blocks, r, c)
      af == Merge(st, d, r, c)
  IN  /\ t # 0
      /\ s # 0
      /\ af.err = "none"
      /\ Len(af.blocks) = Len(st.blocks) - 1
      /\ \E j \in 1 .. Len(af.blocks) :
           af.blocks[j] = [st.blocks[t] EXCEPT !.val = 2 * st.blocks[t].val]
      /\ \A j \in 1 .. Len(af.blocks) : af.blocks[j].id # st.blocks[s].id
      /\ \A i \in (1 .. Len(st.blocks)) \ {t, s} :
           \E j \in 1 .. Len(af.blocks) : af.blocks[j] = st.blocks[i]
      /\ af.grid[r][c] = 0
      /\ af.grid[nr][nc] = 2 * st.grid[nr][nc]
      /\ af.grid[nr][nc] = 2 * st.blocks[s].val

\* The merge step of the k-th cell of the sweep, when that cell has one.
CellMergeOk(st, d, k) ==
  LET sl == Slide(st, d, CellRow(d, k), CellCol(d, k))
  IN  (st.grid[CellRow(d, k)][CellCol(d, k)] # 0 /\ MergeTest(sl.st.grid, d, sl.r, sl.c))
        => MergeStepOk(sl.st, d, sl.r, sl.c)

RECURSIVE MergesOkFrom(_, _, _)
MergesOkFrom(st, d, k) ==
  \/ k > CellCount(d)
  \/ /\ CellMergeOk(st, d, k)
     /\ MergesOkFrom(ProcessCell(st, d, CellRow(d, k), CellCol(d, k)), d, k + 1)

\* C20: in every merge step of a sweep the block closer to the target edge
\* survives with its identity, row and col and a doubled val, and the block
\* that slid toward it is removed from the list and its cell set to 0.
C20_MergeKeepsEdgeBlock ==
  [][(MoveStep /\ last'.dir \in Directions /\ last'.merges >= 1) =>
       MergesOkFrom(SweepStart(grid, blocks), last'.dir, 1)]_vars

\* move('up') merged the lower of two tiles of a column into the upper one,
\* the first block of the list, which is now an 8 in row 0.
C20_Witness ==
  /\ nmoves = 1
  /\ last.dir = "up"
  /\ last.merges = 1
  /\ blocks[1].id = 1
  /\ blocks[1].row = 0
  /\ blocks[1].val = 8
  /\ \A i \in 2 .. Len(SweptBlocks) : blocks[i].id > 2

\* The keys that were down in the frame before: none before the first frame.
PrevKeys == IF last.dir = "update" THEN last.keys ELSE {}

\* How many times move was called with direction d.
Times(ms, d) == Cardinality({k \in 1 .. Len(ms) : ms[k] = d})

\* C19: a frame calls move once for each direction whose key is down in
\* this frame and was not down in the frame before, and for no other
\* direction, whether or not that move changed the grid: a held key moves
\* once, in the first frame of the run, and again only after a frame that
\* saw it released.  A frame that calls no move leaves the board as it was.
C19_OneMovePerKeyPress ==
  [][(last'.dir = "update") =>
       /\ last'.err = "none"
       /\ \A d \in Directions :
            Times(last'.moved, d) = IF d \in last'.keys \ PrevKeys THEN 1 ELSE 0
       /\ \A d \in Directions : InPressed(pressed', d) <=> d \in last'.keys
       /\ (last'.moved = <<>>) => (grid' = grid /\ blocks' = blocks /\ nextId' = nextId)]_vars

\* The second frame: up is still held and did not move again, left is newly
\* down and moved, without changing the grid.
C19_Witness ==
  /\ nmoves = 2
  /\ last.dir = "update"
  /\ last.keys = {"up", "left"}
  /\ last.moved = <<"left">>
  /\ pressed = <<"up", "left">>
  /\ EmptyCells(grid) = {}

\* The identities of the blocks of a list.
Ids(bs) == {bs[i].id : i \in 1 .. Len(bs)}

\* C21: the sweep creates no block: the identities after it are among those
\* before it, it removes as many blocks as it made merge steps, and after
\* the whole move the only new block is the spawned one, there exactly when
\* the grid changed.
C21_SweepCreatesNoBlock ==
  [][MoveStep =>
       LET sb == SweptBlocks'
           old == Ids(blocks)
           new == Ids(blocks') \ Ids(blocks)
       IN  /\ Ids(sb) \subseteq old
           /\ Cardinality(Ids(sb)) = Len(sb)
           /\ Len(blocks) - Len(sb) = last'.merges
           /\ Cardinality(old \ Ids(sb)) = last'.merges
           /\ (SweptGrid' # grid) => (new = {SpawnedBlock'.id} /\ last'.spawns = 1)
           /\ (SweptGrid' = grid) => (new = {} /\ last'.spawns = 0)]_vars

\* A second move merged three blocks into one and spawned another.
C21_Witness ==
  /\ nmoves = 2
  /\ last.merges = 2
  /\ last.spawns = 1
  /\ Len(blocks) = 2
  /\ blocks[2].id = 4

\* The tiles of a line read from the target edge form a run that starts at
\* the edge: no tile comes after an empty cell.
PackedLine(line) == \A k \in 1 .. (N - 1) : line[k] = 0 => line[k + 1] = 0

\* C22: after the sweep of move(d), before any spawn, the tiles of every
\* column (up, down) or row (left, right) form a contiguous run that starts
\* at the target edge.
C22_LinesCompacted ==
  (last.dir \in Directions) => \A i \in Idx : PackedLine(LineOf(SweptGrid, last.dir, i))

\* move('down') slid the tiles of a column to the bottom without a merge.
C22_Witness ==
  /\ nmoves = 1
  /\ last.dir = "down"
  /\ last.slides >= 3
  /\ last.merges = 0
  /\ Len(SweptBlocks) >= 3

\* The top-bottom flip and the transpose of a grid.
Flip(g) == [r \in Idx |-> [c \in Idx |-> g[N - 1 - r][c]]]

Transpose(g) == [r \in Idx |-> [c \in Idx |-> g[c][r]]]

\* The grid the sweep of direction d leaves of the board of grid g.
SweepGrid(d, g) == Sweep(d, g, BlocksOf(g, RowMajor, 1)).grid

\* C23: the four sweeps are mirror images: the grid the down sweep leaves
\* is the flip of the up sweep of the flipped grid, that of the left sweep
\* the transpose of the up sweep of the transposed grid, and that of the
\* right sweep the transpose of the down sweep of the transposed grid.
C23_SweepsMirror ==
  [][MoveStep =>
       /\ (last'.dir = "down") => SweptGrid' = Flip(SweepGrid("up", Flip(grid)))
       /\ (last'.dir = "left") => SweptGrid' = Transpose(SweepGrid("up", Transpose(grid)))
       /\ (last'.dir = "right") => SweptGrid' = Transpose(SweepGrid("down", Transpose(grid)))]_vars

\* move('left') changed a board that is not its own transpose.
C23_Witness ==
  /\ nmoves = 1
  /\ last.dir = "left"
  /\ last.merges >= 1
  /\ last.slides >= 1
  /\ SweptGrid # Transpose(SweptGrid)

\* C24: whenever move calls spawn_block the swept grid has an empty cell:
\* the call never fails for lack of one.
C24_SpawnHasEmptyCell ==
  (last.dir \in Directions \cup {OtherDirection} /\ last.spawns = 1) =>
    /\ last.err = "none"
    /\ EmptyCells(SweptGrid) # {}
    /\ SweptGrid[SpawnedBlock.row][SpawnedBlock.col] = 0

\* A move on a full board merged one pair without a slide, and the spawn
\* filled the one cell that the merge emptied.
C24_Witness ==
  /\ nmoves = 1
  /\ last.merges = 1
  /\ last.slides = 0
  /\ last.spawns = 1
  /\ last.err = "none"
  /\ EmptyCells(grid) = {}

\* The place in the list of the block of identity id.
PosOf(bs, id) == CHOOSE k \in 1 .. Len(bs) : bs[k].id = id

\* C25: the blocks list stays in insertion order: the blocks that survive a
\* move keep their relative order, a merge only deletes an entry, and a
\* spawned block is the last element.
C25_InsertionOrderKept ==
  [][MoveStep =>
       LET sb == SweptBlocks'
       IN  /\ Ids(sb) \subseteq Ids(blocks)
           /\ \A i \in 1 .. Len(sb) : \A j \in (i + 1) .. Len(sb) :
                PosOf(blocks, sb[i].id) < PosOf(blocks, sb[j].id)
           /\ (last'.spawns = 1) =>
                /\ Len(blocks') = Len(sb) + 1
                /\ blocks'[Len(blocks')].id \notin Ids(blocks)
                /\ \A i \in 1 .. Len(sb) : blocks'[i].id \in Ids(blocks)]_vars

\* A move merged one pair of a list of four blocks that was not in row-major
\* order, and the spawned block, the fifth created, is the last of the list.
C25_Witness ==
  /\ nmoves = 1
  /\ last.merges = 1
  /\ last.spawns = 1
  /\ Len(blocks) = 4
  /\ blocks[4].id = 5
  /\ blocks[1].id > blocks[3].id

\* C26: the comparison of the swept grid with old_grid agrees with a dirty
\* flag: the grids differ, and move calls spawn_block, exactly when the
\* sweep made at least one slide step or merge step.
C26_ChangedIffStepped ==
  [][MoveStep =>
       LET stepped == last'.slides + last'.merges > 0
       IN  /\ (SweptGrid' # grid) <=> stepped
           /\ (last'.spawns = 1) <=> stepped
           /\ (grid' # grid) <=> stepped]_vars

\* A move whose sweep made a single slide step and no merge, and spawned.
C26_Witness ==
  /\ nmoves = 1
  /\ last.dir \in Directions
  /\ last.slides = 1
  /\ last.merges = 0
  /\ last.spawns = 1

\* C27: between the move calls of a game the number of blocks is the number
\* of non-zero cells and lies between 2 and 16: no sequence of moves leaves
\* fewer than two tiles.
C27_TileCount ==
  /\ Len(blocks) = TilesIn(grid)
  /\ Len(blocks) >= 2
  /\ Len(blocks) <= N * N

\* The first move merged the two tiles of a new game into one, and the
\* spawn brought the board back to two tiles.
C27_Witness ==
  /\ nmoves = 1
  /\ last.merges = 1
  /\ Len(blocks) = 2
  /\ TilesIn(grid) = 2
  /\ blocks[1].val \in {4, 8}

\* The grid that holds line i of g for direction d (column i for up and
\* down, row i for left and right) and nothing else.
OnlyLine(g, d, i) ==
  [r \in Idx |-> [c \in Idx |->
     IF (IF d \in {"up", "down"} THEN c ELSE r) = i THEN g[r][c] ELSE 0]]

\* The block a of before a sweep of direction d and the same block b after
\* it: b is in a's line, at a's cell or nearer to the target edge.
MovedAlongAxis(d, a, b) ==
  CASE d = "up" -> b.col = a.col /\ b.row <= a.row
    [] d = "down" -> b.col = a.col /\ b.row >= a.row
    [] d = "left" -> b.row = a.row /\ b.col <= a.col
    [] d = "right" -> b.row = a.row /\ b.col >= a.col

\* C28: the sweep acts on each line by itself and along its axis: a line of
\* the swept grid is the line the sweep leaves of the board that holds that
\* line alone, and every surviving block stays in its column (up, down) or
\* row (left, right) and moves toward the target edge or not at all.
C28_LinesIndependent ==
  [][(MoveStep /\ last'.dir \in Directions) =>
       LET sg == SweptGrid'
           sb == SweptBlocks'
           d == last'.dir
       IN  /\ \A i \in Idx :
                LineOf(sg, d, i) = LineOf(SweepGrid(d, OnlyLine(grid, d, i)), d, i)
           /\ \A j \in 1 .. Len(sb) :
                /\ sb[j].id \in Ids(blocks)
                /\ MovedAlongAxis(d, blocks[PosOf(blocks, sb[j].id)], sb[j])]_vars

\* move('up') slid and merged on a board with tiles in all four columns.
C28_Witness ==
  /\ nmoves = 1
  /\ last.dir = "up"
  /\ last.slides >= 2
  /\ last.merges >= 1
  /\ \A c \in Idx : SweptGrid[0][c] # 0

\* The grid indices of the slide loop and of the merge test for the tile at
\* (r, c), followed along its slide: the tile's own cell is on the board,
\* and the neighbouring cell, read only when the guard holds, is too.
RECURSIVE WalkInBounds(_, _, _, _)
WalkInBounds(g, d, r, c) ==
  LET nr == NextRow(d, r)
      nc == NextCol(d, c)
  IN  /\ <<r, c>> \in Cells
      /\ CanStep(d, r, c) => <<nr, nc>> \in Cells
      /\ SlideTest(g, d, r, c) =>
           WalkInBounds([g EXCEPT ![nr][nc] = g[r][c], ![r][c] = 0], d, nr, nc)

\* The same for the sweep from the k-th cell of the two for loops on.
RECURSIVE SweepInBounds(_, _, _)
SweepInBounds(st, d, k) ==
  \/ k > CellCount(d)
  \/ LET r == CellRow(d, k)
         c == CellCol(d, k)
     IN  /\ <<r, c>> \in Cells
         /\ (st.grid[r][c] # 0) => WalkInBounds(st.grid, d, r, c)
         /\ SweepInBounds(ProcessCell(st, d, r, c), d, k + 1)

\* C29: for each of the four directions, every grid index the sweep of a
\* board reads or writes has its row and its column in 0..3: the
\* neighbouring cell is accessed only after the guard on r or c.
C29_IndicesInBounds == \A d \in Directions : SweepInBounds(SweepStart(grid, blocks), d, 1)

\* move('right') slid a tile from column 0 to column 3 of its row.
C29_Witness ==
  /\ nmoves = 1
  /\ last.dir = "right"
  /\ last.slides = 3
  /\ last.merges = 0
  /\ Len(SweptBlocks) = 2
  /\ \E r \in Idx : SweptGrid[r][3] # 0 /\ SweptGrid[r][2] = 0

\* The place of direction d in the tuple moves.
MoveRank(d) == CHOOSE k \in 1 .. 4 : <<"up", "down", "left", "right">>[k] = d

\* The calls move(ms[1]), move(ms[2]), ... made one after another on the
\* board (g, bs, nid), each with its spawn, can leave the board (G, B, Nid).
RECURSIVE MovesInTurn(_, _, _, _, _, _, _)
MovesInTurn(ms, g, bs, nid, G, B, Nid) ==
  IF ms = <<>>
  THEN g = G /\ bs = B /\ nid = Nid
  ELSE \E m \in move(Head(ms), g, bs, nid) :
         /\ m.last.err = "none"
         /\ m.nextId <= Nid
         /\ MovesInTurn(Tail(ms), m.grid, m.blocks, m.nextId, G, B, Nid)

\* C30: after every check_for_moves call pressed holds each direction at
\* most once and holds exactly the directions whose key was down in that
\* call; the moves of one call run in the order up, down, left, right, each
\* a whole move with its spawn before the next begins.
C30_PressedAndMoveOrder ==
  [][(last'.dir = "update") =>
       /\ last'.err = "none"
       /\ \A j \in 1 .. Len(pressed') : \A k \in (j + 1) .. Len(pressed') : pressed'[j] # pressed'[k]
       /\ \A d \in Directions : InPressed(pressed', d) <=> d \in last'.keys
       /\ \A j \in 1 .. Len(last'.moved) : \A k \in (j + 1) .. Len(last'.moved) :
            MoveRank(last'.moved[j]) < MoveRank(last'.moved[k])
       /\ MovesInTurn(last'.moved, grid, blocks, nextId, grid', blocks', nextId')]_vars

\* The first frame, with the four keys down: the four moves ran in their
\* order and at least two of them spawned a block.
C30_Witness ==
  /\ nmoves = 1
  /\ last.dir = "update"
  /\ last.keys = Directions
  /\ last.moved = <<"up", "down", "left", "right">>
  /\ pressed = <<"up", "down", "left", "right">>
  /\ nextId >= 19

====
